---- MODULE Spec2Model ----
(***************************************************************************)
(* A model of package katago (src/katago.go): NewKataGo, one KataGo        *)
(* session, the goroutines that call Analyze and Close on it, readStderr,  *)
(* the three pipes to the engine process and the bufio.Reader on the       *)
(* engine's stdout.  The engine process is the environment.                *)
(*                                                                         *)
(* Ids are small naturals; 0 stands for the empty string, the zero value   *)
(* of AnalysisResponse.ID.                                                 *)
(***************************************************************************)
EXTENDS Naturals, Sequences, FiniteSets

\* ---------------------------------------------------------------- bounds
NumCallers == 2
NumIds == 2
MaxBatch == 2
MaxCalls == 2
MaxNoise == 1
MaxCloses == 2
MaxRaces == 1
StdinCap == 1
StdoutCap == 2
EngineCap == 2
\* the bounds of the single-caller specifications
NumIdsB == 3
MaxBatchB == 3
MaxLong == 6
\* the stderr pipe and the engine's log lines
StderrCap == 1
MaxLog == 2

Callers == 1..NumCallers
Ids == 1..NumIds
EmptyID == 0
\* an id no request of the model carries
StrayID == NumIds + 1

VARIABLES
  pc,            \* per caller: "idle", "writing", "midwrite", "reading", "done"
  requests,      \* per caller: the argument of the running Analyze call
  sent,          \* per caller: how many requests the first loop has handled
  responseMap,   \* per caller: the local responseMap, a set of responses with distinct IDs
  responses,     \* per caller: the returned []AnalysisResponse
  err,           \* per caller: the returned error
  calls,         \* per caller: Analyze calls started so far
  earlier,       \* per caller: an earlier call of this goroutine has returned replies
  late,          \* per caller: the running call started after a Close had returned or the engine had exited
  inflight,      \* per caller: a Close began after the running call had written its requests and before it returned
  arrival,       \* per caller: the lines ReadString has returned to the running call, in order
  stdinPipe,     \* request lines, or parts of lines, written to k.stdin and not yet read by the engine
  wlock,         \* the goroutine inside a Write call on k.stdin, 0 when there is none
  stdoutPipe,    \* lines written by the engine and not yet read from the pipe
  rbuf,          \* lines held in the bufio.Reader k.stdout
  races,         \* reads so far that overlapped another goroutine's read
  stdinClosed,   \* k.stdin has been closed by Close
  stdoutClosed,  \* the read end of stdout has been closed by cmd.Wait
  waitDone,      \* cmd.Wait has returned once
  engine,        \* "unstarted", "running" or "exited"
  exitOK,        \* the exit status of the engine is 0
  ebuf,          \* the part of a line the engine has read before its newline
  pending,       \* ids of the requests the engine has read and not yet answered
  noise,         \* lines the engine has emitted that answer no request
  closePc,       \* the goroutine calling Close: "idle" or "wait"
  closeErrs,     \* the results of the Close calls that have returned, in order
  ctor,          \* where NewKataGo stands: "StdinPipe", "StdoutPipe", "StderrPipe", "Start", "go", "returned"
  pipes,         \* the pipes NewKataGo has created
  session,       \* the *KataGo NewKataGo returned: "nil" or "k"
  newErr,        \* the error NewKataGo returned
  drain,         \* the goroutine readStderr: "none", "running" or "ended"
  stderrPipe,    \* lines the engine has written to stderr and readStderr has not read
  elog,          \* the engine is inside a write to its stderr
  logged         \* lines the engine has begun to write to its stderr

vars ==
  <<pc, requests, sent, responseMap, responses, err, calls, earlier, late, inflight, arrival,
    stdinPipe, wlock, stdoutPipe, rbuf, races, stdinClosed, stdoutClosed, waitDone,
    engine, exitOK, ebuf, pending, noise, closePc, closeErrs,
    ctor, pipes, session, newErr, drain, stderrPipe, elog, logged>>

callerVars ==
  <<pc, requests, sent, responseMap, responses, err, calls, earlier, late, inflight,
    arrival>>
closeVars == <<stdinClosed, stdoutClosed, waitDone, closePc, closeErrs>>
engineVars == <<engine, exitOK, ebuf, pending, noise>>
startVars == <<ctor, pipes, session, newErr>>
stderrVars == <<drain, stderrPipe, elog, logged>>

\* ------------------------------------------------------------ data types
\* AnalysisRequest: the ID and whether Komi is a finite number (json.Marshal
\* rejects NaN and the infinities); the other fields always encode.
AnalysisRequest(id, komi) ==
  [ID |-> id, Komi |-> komi]

\* AnalysisResponse: the ID and the number of MoveInfos entries.
AnalysisResponse(id, n) ==
  [ID |-> id, MoveInfos |-> n]

\* the zero value of AnalysisResponse, what a Go map yields for a missing key
ZeroResponse ==
  AnalysisResponse(EmptyID, 0)

\* a line of text on a pipe: a JSON object with its id and moveInfos, or text
\* that is not a JSON object
JsonLine(id, n) ==
  [kind |-> "json", ID |-> id, MoveInfos |-> n]

GarbageLine ==
  [kind |-> "garbage", ID |-> EmptyID, MoveInfos |-> 0]

\* a request line that went into the pipe in two write(2) calls: its first
\* bytes ("head"), and the rest with the newline ("tail")
Fragment(kind, id) ==
  [kind |-> kind, ID |-> id, MoveInfos |-> 0]

\* json.Marshal(request): fails on a non-finite Komi
MarshalFails(request) ==
  request.Komi = "NaN"

\* the line fmt.Fprintf(k.stdin, "%s\n", requestJSON) writes
Marshal(request) ==
  JsonLine(request.ID, 0)

\* json.Unmarshal([]byte(responseJSON), &response): fails on text that is not
\* a JSON object; an object without "id" leaves ID at its zero value
UnmarshalFails(line) ==
  line.kind # "json"

Unmarshal(line) ==
  AnalysisResponse(line.ID, line.MoveInfos)

\* responseMap[response.ID] = response
MapPut(m, r) ==
  {x \in m : x.ID # r.ID} \cup {r}

\* responseMap[id], the zero value when the key is missing
MapGet(m, id) ==
  IF \E x \in m : x.ID = id THEN CHOOSE x \in m : x.ID = id ELSE ZeroResponse

\* a plausible slip: the last loop stops before the last request
CollectShort(reqs, m) ==
  [i \in 1..(Len(reqs) - 1) |-> MapGet(m, reqs[i].ID)]

\* a plausible slip: the replies appended in reverse request order
CollectReversed(reqs, m) ==
  [i \in 1..Len(reqs) |-> MapGet(m, reqs[Len(reqs) + 1 - i].ID)]

\* the last loop of Analyze: one response per request, in request order
Collect(reqs, m) ==
  [i \in 1..Len(reqs) |-> MapGet(m, reqs[i].ID)]

\* a plausible slip: the loop stops one reply short
LoopStopsEarly(reqs, m) ==
  Cardinality(m) + 1 < Len(reqs)

\* the condition of the read loop
LoopContinues(reqs, m) ==
  Cardinality(m) < Len(reqs)

\* ----------------------------------------------------------------- inputs
SeqsUpTo(S, n) ==
  UNION {[1..k -> S] : k \in 0..n}

Distinct(s) ==
  \A i, j \in 1..Len(s) : i # j => s[i] # s[j]

Requests ==
  {AnalysisRequest(id, k) : id \in Ids, k \in {"finite", "NaN"}}

\* any batch, duplicate ids and unencodable requests included
Batches ==
  SeqsUpTo(Requests, MaxBatch)

\* batches of encodable requests
EncodableBatches ==
  {b \in Batches : \A i \in 1..Len(b) : ~MarshalFails(b[i])}

\* batches of encodable requests with pairwise distinct non-empty ids
DistinctBatches ==
  {b \in SeqsUpTo({AnalysisRequest(id, "finite") : id \in 1..NumIdsB}, MaxBatchB) :
     Distinct([i \in 1..Len(b) |-> b[i].ID])}

\* the batches 1, 1 2, 1 2 3, ... of encodable requests
LongBatches ==
  {[i \in 1..n |-> AnalysisRequest(i, "finite")] : n \in 0..MaxLong}

\* what the engine may print besides the one reply per request: a further
\* reply to some id (one per analysed turn), a line with an unknown id or
\* without id, or text that is not JSON
NoiseLines ==
  {GarbageLine} \cup {JsonLine(id, 2) : id \in Ids \cup {EmptyID, StrayID}}

\* ------------------------------------------------------------------- Init
\* nothing has run yet: no goroutine is inside Analyze or Close, the pipes
\* and the bufio.Reader are empty
Idle ==
  /\ pc = [c \in Callers |-> "idle"]
  /\ requests = [c \in Callers |-> <<>>]
  /\ sent = [c \in Callers |-> 0]
  /\ responseMap = [c \in Callers |-> {}]
  /\ responses = [c \in Callers |-> <<>>]
  /\ err = [c \in Callers |-> "nil"]
  /\ calls = [c \in Callers |-> 0]
  /\ earlier = [c \in Callers |-> FALSE]
  /\ late = [c \in Callers |-> FALSE]
  /\ inflight = [c \in Callers |-> FALSE]
  /\ arrival = [c \in Callers |-> <<>>]
  /\ stdinPipe = <<>>
  /\ wlock = 0
  /\ stdoutPipe = <<>>
  /\ rbuf = <<>>
  /\ races = 0
  /\ stdinClosed = FALSE
  /\ stdoutClosed = FALSE
  /\ waitDone = FALSE
  /\ exitOK = FALSE
  /\ ebuf = <<>>
  /\ pending = <<>>
  /\ noise = 0
  /\ closePc = "idle"
  /\ closeErrs = <<>>
  /\ stderrPipe = 0
  /\ elog = FALSE
  /\ logged = 0

\* the state in which NewKataGo has returned a session
Init ==
  /\ Idle
  /\ engine = "running"
  /\ ctor = "returned"
  /\ pipes = {"stdin", "stdout", "stderr"}
  /\ session = "k"
  /\ newErr = "nil"
  /\ drain = "running"

\* the state in which NewKataGo is called
InitNew ==
  /\ Idle
  /\ engine = "unstarted"
  /\ ctor = "StdinPipe"
  /\ pipes = {}
  /\ session = "nil"
  /\ newErr = "nil"
  /\ drain = "none"

\* ------------------------------------------------------------- NewKataGo
AllPipes ==
  {"stdin", "stdout", "stderr"}

\* return nil, fmt.Errorf(...)
NewFails(e) ==
  /\ ctor' = "returned"
  /\ session' = "nil"
  /\ newErr' = e

\* cmd.StdinPipe(), cmd.StdoutPipe() or cmd.StderrPipe(), and the check of
\* its error
PipeStep(at, pipe, next, e) ==
  /\ ctor = at
  /\ \/ /\ pipes' = pipes \cup {pipe}
        /\ ctor' = next
        /\ UNCHANGED <<session, newErr>>
     \/ /\ NewFails(e)
        /\ UNCHANGED pipes
  /\ UNCHANGED <<callerVars, closeVars, stdinPipe, wlock, stdoutPipe, rbuf, races,
                 engineVars, stderrVars>>

NewStdinPipe ==
  PipeStep("StdinPipe", "stdin", "StdoutPipe", "failed to get stdin")

NewStdoutPipe ==
  PipeStep("StdoutPipe", "stdout", "StderrPipe", "failed to get stdout")

NewStderrPipe ==
  PipeStep("StderrPipe", "stderr", "Start", "failed to get stderr")

\* a plausible slip: the error of cmd.Start is not checked
NewStartUnchecked ==
  /\ ctor = "Start"
  /\ ctor' = "go"
  /\ engine' \in {"running", "unstarted"}
  /\ UNCHANGED <<callerVars, closeVars, stdinPipe, wlock, stdoutPipe, rbuf, races,
                 exitOK, ebuf, pending, noise, pipes, session, newErr, stderrVars>>

\* cmd.Start() and the check of its error
NewStart ==
  /\ ctor = "Start"
  /\ \/ /\ engine' = "running"
        /\ ctor' = "go"
        /\ UNCHANGED <<session, newErr>>
     \/ /\ NewFails("failed to start KataGo")
        /\ UNCHANGED engine
  /\ UNCHANGED <<callerVars, closeVars, stdinPipe, wlock, stdoutPipe, rbuf, races,
                 exitOK, ebuf, pending, noise, pipes, stderrVars>>

\* go k.readStderr(); return k, nil
NewGo ==
  /\ ctor = "go"
  /\ drain' = "running"
  /\ ctor' = "returned"
  /\ session' = "k"
  /\ newErr' = "nil"
  /\ UNCHANGED <<callerVars, closeVars, stdinPipe, wlock, stdoutPipe, rbuf, races,
                 engineVars, pipes, stderrPipe, elog, logged>>

\* ---------------------------------------------------------------- Analyze
\* return from Analyze
Return(c, rs, e) ==
  /\ pc' = [pc EXCEPT ![c] = "done"]
  /\ responses' = [responses EXCEPT ![c] = rs]
  /\ err' = [err EXCEPT ![c] = e]

\* entry of Analyze(requests), a method of the session: the two locals; an empty batch skips both loops
Analyze(c, batch) ==
  /\ session = "k"
  /\ pc[c] = "idle"
  /\ calls[c] < MaxCalls
  /\ calls' = [calls EXCEPT ![c] = @ + 1]
  /\ requests' = [requests EXCEPT ![c] = batch]
  /\ responseMap' = [responseMap EXCEPT ![c] = {}]
  /\ sent' = [sent EXCEPT ![c] = 0]
  /\ late' = [late EXCEPT ![c] = (closeErrs # <<>> \/ engine = "exited")]
  /\ inflight' = [inflight EXCEPT ![c] = FALSE]
  /\ arrival' = [arrival EXCEPT ![c] = <<>>]
  /\ IF batch = <<>>
       THEN Return(c, <<>>, "nil")
       ELSE /\ pc' = [pc EXCEPT ![c] = "writing"]
            /\ UNCHANGED <<responses, err>>
  /\ UNCHANGED <<earlier, stdinPipe, wlock, stdoutPipe, rbuf, races, closeVars, engineVars,
                 startVars, stderrVars>>

\* a plausible slip: the batch walked from its end
NextRequestBackwards(reqs, n) ==
  reqs[Len(reqs) - n]

\* for _, request := range requests: the request of the iteration that
\* follows n finished ones
NextRequest(reqs, n) ==
  reqs[n + 1]

\* a plausible slip: the text and the newline written by two Write calls, the
\* lock of k.stdin free in between
ReleasedBetweenWrites(c) ==
  0

\* fmt.Fprintf formats the whole line and hands it to k.stdin in one Write
\* call; os.File.Write keeps the write lock of the descriptor until every
\* byte is in the pipe, so after a partial write(2) the lock is still held
HeldUntilWritten(c) ==
  c

\* one iteration of the first loop: marshal the next request and write its
\* line to k.stdin; the result of Fprintf is dropped
Write(c) ==
  /\ pc[c] = "writing"
  /\ LET request == NextRequest(requests[c], sent[c]) IN
       IF MarshalFails(request)
         THEN /\ Return(c, <<>>, "marshal")
              /\ UNCHANGED <<sent, stdinPipe>>
         ELSE /\ \/ /\ (stdinClosed \/ engine = "exited")
                    /\ UNCHANGED stdinPipe
                 \/ /\ ~(stdinClosed \/ engine = "exited")
                    /\ wlock = 0
                    /\ Len(stdinPipe) < StdinCap
                    /\ stdinPipe' = Append(stdinPipe, Marshal(request))
              /\ sent' = [sent EXCEPT ![c] = @ + 1]
              /\ pc' = [pc EXCEPT ![c] =
                          IF sent[c] + 1 = Len(requests[c]) THEN "reading" ELSE "writing"]
              /\ UNCHANGED <<responses, err>>
  /\ UNCHANGED <<requests, responseMap, calls, earlier, late, inflight, arrival,
                 wlock, stdoutPipe, rbuf, races, closeVars, engineVars, startVars, stderrVars>>

\* the same Write call when the pipe takes only the first bytes of the line:
\* the goroutine stays inside Write, waiting for room
WriteHead(c) ==
  /\ pc[c] = "writing"
  /\ ~MarshalFails(NextRequest(requests[c], sent[c]))
  /\ ~(stdinClosed \/ engine = "exited")
  /\ wlock = 0
  /\ Len(stdinPipe) < StdinCap
  /\ stdinPipe' = Append(stdinPipe, Fragment("head", NextRequest(requests[c], sent[c]).ID))
  /\ wlock' = HeldUntilWritten(c)
  /\ pc' = [pc EXCEPT ![c] = "midwrite"]
  /\ UNCHANGED <<requests, sent, responseMap, responses, err, calls, earlier, late, inflight, arrival,
                 stdoutPipe, rbuf, races, closeVars, engineVars, startVars, stderrVars>>

\* the rest of the line goes into the pipe and Write returns; on a closed
\* pipe it returns without writing
WriteTail(c) ==
  /\ pc[c] = "midwrite"
  /\ \/ /\ (stdinClosed \/ engine = "exited")
        /\ UNCHANGED stdinPipe
     \/ /\ ~(stdinClosed \/ engine = "exited")
        /\ Len(stdinPipe) < StdinCap
        /\ stdinPipe' = Append(stdinPipe, Fragment("tail", NextRequest(requests[c], sent[c]).ID))
  /\ wlock' = IF wlock = c THEN 0 ELSE wlock
  /\ sent' = [sent EXCEPT ![c] = @ + 1]
  /\ pc' = [pc EXCEPT ![c] =
              IF sent[c] + 1 = Len(requests[c]) THEN "reading" ELSE "writing"]
  /\ UNCHANGED <<requests, responseMap, responses, err, calls, earlier, late, inflight, arrival,
                 stdoutPipe, rbuf, races, closeVars, engineVars, startVars, stderrVars>>

\* the body of the read loop once ReadString has returned `line`
Consume(c, line) ==
  /\ arrival' = [arrival EXCEPT ![c] = Append(@, line)]
  /\ IF UnmarshalFails(line)
       THEN /\ Return(c, <<>>, "unmarshal")
            /\ UNCHANGED responseMap
       ELSE LET m == MapPut(responseMap[c], Unmarshal(line)) IN
              /\ responseMap' = [responseMap EXCEPT ![c] = m]
              /\ IF LoopContinues(requests[c], m)
                   THEN UNCHANGED <<pc, responses, err>>
                   ELSE Return(c, Collect(requests[c], m), "nil")

\* bufio.Reader.fill: with lines left in the buffer nothing is read from the
\* pipe (0); with an empty buffer one read(2) takes some of the lines the
\* pipe holds, at least one; on a closed pipe, or an empty one, none
FillSizes ==
  IF rbuf # <<>> THEN {0}
  ELSE IF stdoutClosed THEN {}
  ELSE 1..Len(stdoutPipe)

\* the buffer after a fill of k lines, and what stays in the pipe
Filled(k) ==
  rbuf \o SubSeq(stdoutPipe, 1, k)

Unread(k) ==
  SubSeq(stdoutPipe, k + 1, Len(stdoutPipe))

\* one iteration of the read loop: k.stdout.ReadString('\n') hands over the
\* next line, or fails at end of stream or on the closed pipe
Read(c) ==
  /\ pc[c] = "reading"
  /\ \/ \E k \in FillSizes :
          /\ rbuf' = Tail(Filled(k))
          /\ stdoutPipe' = Unread(k)
          /\ Consume(c, Head(Filled(k)))
     \/ /\ rbuf = <<>>
        /\ (stdoutClosed \/ (engine = "exited" /\ stdoutPipe = <<>>))
        /\ Return(c, <<>>, "read")
        /\ UNCHANGED <<responseMap, rbuf, stdoutPipe, arrival>>
  /\ UNCHANGED <<requests, sent, calls, earlier, late, inflight, stdinPipe, wlock, races, closeVars, engineVars,
                 startVars, stderrVars>>

\* The caller looks at what Analyze returned; the goroutine is free again.
Finish(c) ==
  /\ pc[c] = "done"
  /\ calls[c] < MaxCalls
  /\ pc' = [pc EXCEPT ![c] = "idle"]
  /\ requests' = [requests EXCEPT ![c] = <<>>]
  /\ responseMap' = [responseMap EXCEPT ![c] = {}]
  /\ responses' = [responses EXCEPT ![c] = <<>>]
  /\ err' = [err EXCEPT ![c] = "nil"]
  /\ sent' = [sent EXCEPT ![c] = 0]
  /\ late' = [late EXCEPT ![c] = FALSE]
  /\ inflight' = [inflight EXCEPT ![c] = FALSE]
  /\ arrival' = [arrival EXCEPT ![c] = <<>>]
  /\ earlier' = [earlier EXCEPT ![c] = @ \/ responses[c] # <<>>]
  /\ UNCHANGED <<calls, stdinPipe, wlock, stdoutPipe, rbuf, races, closeVars, engineVars,
                 startVars, stderrVars>>

\* Two goroutines inside k.stdout.ReadString at once: bufio.Reader is not
\* synchronised, so its indices r and w race.  The line handed to this caller
\* is the next line or torn text, and the next line is consumed or left for
\* the other reader to see again.
ReadRace(c) ==
  /\ pc[c] = "reading"
  /\ \E d \in Callers \ {c} : pc[d] = "reading"
  /\ races < MaxRaces
  /\ races' = races + 1
  /\ \E k \in FillSizes, consumed \in BOOLEAN :
       \E line \in IF consumed THEN {GarbageLine} ELSE {Head(Filled(k)), GarbageLine} :
         /\ rbuf' = IF consumed THEN Tail(Filled(k)) ELSE Filled(k)
         /\ stdoutPipe' = Unread(k)
         /\ Consume(c, line)
  /\ UNCHANGED <<requests, sent, calls, earlier, late, inflight, stdinPipe, wlock, closeVars, engineVars,
                 startVars, stderrVars>>

\* ------------------------------------------------------------------ Close
\* entry of Close, a method of the session, and k.stdin.Close().  On a closed
\* pipe the os.File reports ErrClosed, and Close returns it; behind a close-once wrapper (os/exec before Go 1.20) the second
\* call reports the first result, nil, and Close goes on to cmd.Wait.
CloseStdin ==
  /\ session = "k"
  /\ closePc = "idle"
  /\ Len(closeErrs) < MaxCloses
  /\ \/ /\ ~stdinClosed
        /\ stdinClosed' = TRUE
        /\ closePc' = "wait"
        /\ inflight' = [c \in Callers |-> inflight[c] \/ pc[c] = "reading"]
        /\ UNCHANGED closeErrs
     \/ /\ stdinClosed
        /\ closeErrs' = Append(closeErrs, "stdin")
        /\ UNCHANGED <<stdinClosed, closePc, inflight>>
     \/ /\ stdinClosed
        /\ closePc' = "wait"
        /\ UNCHANGED <<stdinClosed, closeErrs, inflight>>
  /\ UNCHANGED <<pc, requests, sent, responseMap, responses, err, calls, earlier, late, arrival,
                 stdinPipe, wlock, stdoutPipe, rbuf, races, stdoutClosed, waitDone, engineVars,
                 startVars, stderrVars>>

\* a plausible slip: a Close that does not wait for the process but ends it
CloseWaitKills ==
  /\ closePc = "wait"
  /\ ~waitDone
  /\ engine' = "exited"
  /\ waitDone' = TRUE
  /\ stdoutClosed' = TRUE
  /\ stdoutPipe' = <<>>
  /\ closeErrs' = Append(closeErrs, "nil")
  /\ closePc' = "idle"
  /\ UNCHANGED <<callerVars, stdinPipe, wlock, rbuf, races, stdinClosed,
                 exitOK, ebuf, pending, noise, startVars, stderrVars>>

\* return k.cmd.Wait(): blocks until the process has exited, closes the
\* parent's end of the stdout pipe and reports the exit status; a second Wait
\* fails at once
CloseWait ==
  /\ closePc = "wait"
  /\ \/ /\ waitDone
        /\ closeErrs' = Append(closeErrs, "wait")
        /\ UNCHANGED <<stdoutClosed, waitDone, stdoutPipe>>
     \/ /\ ~waitDone
        /\ engine = "exited"
        /\ waitDone' = TRUE
        /\ stdoutClosed' = TRUE
        /\ stdoutPipe' = <<>>
        /\ closeErrs' = Append(closeErrs, IF exitOK THEN "nil" ELSE "exit")
  /\ closePc' = "idle"
  /\ UNCHANGED <<callerVars, stdinPipe, wlock, rbuf, races, stdinClosed, engineVars,
                 startVars, stderrVars>>

\* ------------------------------------------------------- the engine process
\* the text up to a newline, as the engine has read it piece by piece, is
\* one request line
WholeLine(buf, f) ==
  \/ buf = <<>> /\ f.kind = "json"
  \/ buf = <<Fragment("head", f.ID)>> /\ f.kind = "tail"

\* the engine reads from its stdin: the first bytes of a line, which it
\* keeps, or up to a newline, which gives it a request when the text is one
\* request line; other text it drops
EngineRead ==
  /\ engine = "running"
  /\ ~elog
  /\ stdinPipe # <<>>
  /\ Len(pending) < EngineCap
  /\ LET f == Head(stdinPipe) IN
       IF f.kind = "head"
         THEN /\ ebuf' = Append(ebuf, f)
              /\ UNCHANGED pending
         ELSE /\ ebuf' = <<>>
              /\ pending' = IF WholeLine(ebuf, f) THEN Append(pending, f.ID) ELSE pending
  /\ stdinPipe' = Tail(stdinPipe)
  /\ UNCHANGED <<callerVars, closeVars, wlock, stdoutPipe, rbuf, races, engine, exitOK, noise,
                 startVars, stderrVars>>

\* the engine prints the reply to one request it has read, in any order
EngineReply ==
  /\ engine = "running"
  /\ ~elog
  /\ Len(stdoutPipe) < StdoutCap
  /\ \E i \in 1..Len(pending) :
       /\ stdoutPipe' = Append(stdoutPipe, JsonLine(pending[i], 1))
       /\ pending' = SubSeq(pending, 1, i - 1) \o SubSeq(pending, i + 1, Len(pending))
  /\ UNCHANGED <<callerVars, closeVars, stdinPipe, wlock, rbuf, races, engine, exitOK, ebuf, noise,
                 startVars, stderrVars>>

\* the engine prints a line that is not the one reply to a request
EngineNoise ==
  /\ engine = "running"
  /\ ~elog
  /\ noise < MaxNoise
  /\ Len(stdoutPipe) < StdoutCap
  /\ \E line \in NoiseLines : stdoutPipe' = Append(stdoutPipe, line)
  /\ noise' = noise + 1
  /\ UNCHANGED <<callerVars, closeVars, stdinPipe, wlock, rbuf, races, engine, exitOK, ebuf, pending,
                 startVars, stderrVars>>

\* the engine process exits: cleanly after end of input, or at any moment
\* with a failure status; what it has not read is lost, what it has printed
\* stays in the pipe
EngineExit ==
  /\ engine = "running"
  /\ engine' = "exited"
  /\ exitOK' = (stdinClosed /\ stdinPipe = <<>> /\ ebuf = <<>> /\ pending = <<>> /\ ~elog)
  /\ stdinPipe' = <<>>
  /\ ebuf' = <<>>
  /\ pending' = <<>>
  /\ elog' = FALSE
  /\ UNCHANGED <<callerVars, closeVars, wlock, stdoutPipe, rbuf, races, noise,
                 startVars, drain, stderrPipe, logged>>

\* the engine begins to write a line to its stderr; until the line is in the
\* pipe it does nothing else
EngineLog ==
  /\ engine = "running"
  /\ ~elog
  /\ logged < MaxLog
  /\ elog' = TRUE
  /\ logged' = logged + 1
  /\ UNCHANGED <<callerVars, closeVars, stdinPipe, wlock, stdoutPipe, rbuf, races,
                 engineVars, startVars, drain, stderrPipe>>

\* the line goes into the stderr pipe once the pipe has room
EngineLogDone ==
  /\ engine = "running"
  /\ elog
  /\ stderrPipe < StderrCap
  /\ stderrPipe' = stderrPipe + 1
  /\ elog' = FALSE
  /\ UNCHANGED <<callerVars, closeVars, stdinPipe, wlock, stdoutPipe, rbuf, races,
                 engineVars, startVars, drain, logged>>

\* -------------------------------------------------------------- readStderr
\* one iteration of the loop: k.stderr.Scan() yields a line, which is printed
ReadStderr ==
  /\ drain = "running"
  /\ stderrPipe > 0
  /\ stderrPipe' = stderrPipe - 1
  /\ UNCHANGED <<callerVars, closeVars, stdinPipe, wlock, stdoutPipe, rbuf, races,
                 engineVars, startVars, drain, elog, logged>>

\* k.stderr.Scan() yields false and readStderr returns: at the end of the
\* stream, on the read end closed by cmd.Wait, or on a line longer than the
\* Scanner's buffer (bufio.ErrTooLong), which stays unread
ReadStderrReturn ==
  /\ drain = "running"
  /\ \/ engine = "exited" /\ stderrPipe = 0
     \/ waitDone
     \/ stderrPipe > 0
  /\ drain' = "ended"
  /\ UNCHANGED <<callerVars, closeVars, stdinPipe, wlock, stdoutPipe, rbuf, races,
                 engineVars, startVars, stderrPipe, elog, logged>>

\* --------------------------------------------------------- specifications
\* the goroutine that uses the session, as the tests and the README do
Main == 1

\* One goroutine calling Analyze, call after call, with any batches; another
\* calling Close, at any moment and more than once; an engine that may print
\* anything and exit at any time.
Next ==
  \/ \E batch \in Batches : Analyze(Main, batch)
  \/ Write(Main)
  \/ Read(Main)
  \/ Finish(Main)
  \/ CloseStdin
  \/ CloseWait
  \/ EngineRead
  \/ EngineReply
  \/ EngineNoise
  \/ EngineExit

Spec ==
  Init /\ [][Next]_vars

\* One Analyze call with any batch, an engine that may print anything and
\* exit at any time.
NextCall ==
  \/ \E batch \in Batches : Analyze(Main, batch)
  \/ Write(Main)
  \/ Read(Main)
  \/ EngineRead
  \/ EngineReply
  \/ EngineNoise
  \/ EngineExit

SpecCall ==
  Init /\ [][NextCall]_vars

\* One goroutine, batches with pairwise distinct ids, an engine that prints
\* exactly one reply per request, in any order, and nothing else.
NextBatch ==
  \/ \E batch \in DistinctBatches : Analyze(Main, batch)
  \/ Write(Main)
  \/ Read(Main)
  \/ Finish(Main)
  \/ EngineRead
  \/ EngineReply

SpecBatch ==
  Init /\ [][NextBatch]_vars

\* Several goroutines calling Analyze at once on the session, an engine that
\* prints exactly one reply per request, in any order.
NextConc ==
  \/ \E c \in Callers, batch \in EncodableBatches : Analyze(c, batch)
  \/ \E c \in Callers : Write(c)
  \/ \E c \in Callers : WriteHead(c)
  \/ \E c \in Callers : WriteTail(c)
  \/ \E c \in Callers : Read(c)
  \/ \E c \in Callers : ReadRace(c)
  \/ EngineRead
  \/ EngineReply

SpecConc ==
  Init /\ [][NextConc]_vars

\* One goroutine, batches longer than the pipes and the engine hold together,
\* an engine that prints exactly one reply per request; a goroutine that can
\* take a step takes it, and the engine goes on reading requests and
\* answering the ones it has read.
NextLong ==
  \/ \E batch \in LongBatches : Analyze(Main, batch)
  \/ Write(Main)
  \/ Read(Main)
  \/ Finish(Main)
  \/ EngineRead
  \/ EngineReply

SpecLongFair ==
  /\ Init /\ [][NextLong]_vars
  /\ WF_vars(Write(Main))
  /\ WF_vars(Read(Main))
  /\ WF_vars(EngineRead)
  /\ WF_vars(EngineReply)

\* A program that calls NewKataGo and, when it has a session, uses it from
\* one goroutine and closes it; the engine, once started, may exit at any
\* time.
NextNew ==
  \/ NewStdinPipe
  \/ NewStdoutPipe
  \/ NewStderrPipe
  \/ NewStart
  \/ NewGo
  \/ \E batch \in DistinctBatches : Analyze(Main, batch)
  \/ Write(Main)
  \/ Read(Main)
  \/ Finish(Main)
  \/ CloseStdin
  \/ CloseWait
  \/ EngineRead
  \/ EngineReply
  \/ EngineExit

SpecNew ==
  InitNew /\ [][NextNew]_vars

\* One goroutine calling Analyze with pairwise distinct ids and another
\* calling Close, an engine that prints exactly one reply per request and
\* writes lines to its stderr, and readStderr.  A goroutine that can take a
\* step takes it, and the engine goes on with what it has begun; nothing
\* obliges it to log or to exit.
NextStderr ==
  \/ \E batch \in DistinctBatches : Analyze(Main, batch)
  \/ Write(Main)
  \/ Read(Main)
  \/ Finish(Main)
  \/ CloseStdin
  \/ CloseWait
  \/ EngineRead
  \/ EngineReply
  \/ EngineExit
  \/ EngineLog
  \/ EngineLogDone
  \/ ReadStderr
  \/ ReadStderrReturn

SpecStderrFair ==
  /\ Init /\ [][NextStderr]_vars
  /\ WF_vars(Write(Main))
  /\ WF_vars(Read(Main))
  /\ WF_vars(CloseWait)
  /\ WF_vars(EngineRead)
  /\ WF_vars(EngineReply)
  /\ WF_vars(EngineLogDone)
  /\ WF_vars(ReadStderr)

\* The goroutines of Spec, where a goroutine that can take a step takes it:
\* the one inside Analyze goes on writing and reading, the one inside Close
\* returns from cmd.Wait once the process has exited.  Nothing obliges the
\* engine to exit.
SpecCloseFair ==
  /\ Init /\ [][Next]_vars
  /\ WF_vars(Write(Main))
  /\ WF_vars(Read(Main))
  /\ WF_vars(CloseWait)

\* ------------------------------------------------------------------ claims
IdsOf(reqs) ==
  [i \in 1..Len(reqs) |-> reqs[i].ID]

\* Analyze returned without error, one response per request, the i-th with
\* the id of the i-th request
Matched(c) ==
  /\ err[c] = "nil"
  /\ Len(responses[c]) = Len(requests[c])
  /\ \A i \in 1..Len(requests[c]) : responses[c][i].ID = requests[c][i].ID

\* every request of the running call can be encoded
Encodable(c) ==
  \A i \in 1..Len(requests[c]) : ~MarshalFails(requests[c][i])

\* every line the running call has read is a JSON object that carries an id
LinesCarryIds(c) ==
  \A k \in 1..Len(arrival[c]) :
    ~UnmarshalFails(arrival[c][k]) /\ arrival[c][k].ID # EmptyID

\* every line the running call has read is the engine's reply to one of its
\* own requests
OwnRepliesRead(c) ==
  \A k \in 1..Len(arrival[c]) :
    \E i \in 1..Len(requests[c]) : arrival[c][k] = JsonLine(requests[c][i].ID, 1)

\* C1: a batch with pairwise distinct non-empty ids, answered with exactly
\* one reply per request in any order, comes back as a list of the same
\* length whose i-th reply has the id of the i-th request.
C1_RepliesInRequestOrder ==
  pc[Main] = "done" => Matched(Main)

\* C1 witness: a batch of two or more has returned after its replies arrived
\* in another order than the requests were given.
C1_Witness ==
  /\ pc[Main] = "done"
  /\ Len(requests[Main]) >= 2
  /\ Len(arrival[Main]) = Len(requests[Main])
  /\ IdsOf(arrival[Main]) # IdsOf(requests[Main])
  /\ Matched(Main)

\* C2: with ids distinct across all concurrent callers, every caller reads
\* only replies to its own requests and returns exactly those.
C2_OwnRepliesOnly ==
  (/\ \A c \in Callers : Distinct(IdsOf(requests[c]))
   /\ \A c, d \in Callers : c # d =>
        \A i \in 1..Len(requests[c]), j \in 1..Len(requests[d]) :
          requests[c][i].ID # requests[d][j].ID)
  => \A c \in Callers :
       /\ \A k \in 1..Len(arrival[c]) :
            \E i \in 1..Len(requests[c]) : arrival[c][k].ID = requests[c][i].ID
       /\ pc[c] = "done" => Matched(c)

\* C3: a successful Analyze returns, for every request, a reply it has read
\* with that request's id; a line with another id does not end the call and
\* no placeholder is returned.  Stated for the calls whose lines all carried
\* an id.
C3_NoReplyNotReceived ==
  (pc[Main] = "done" /\ err[Main] = "nil" /\ LinesCarryIds(Main)) =>
    \A i \in 1..Len(requests[Main]) :
      /\ responses[Main][i].ID = requests[Main][i].ID
      /\ \E k \in 1..Len(arrival[Main]) :
           /\ ~UnmarshalFails(arrival[Main][k])
           /\ Unmarshal(arrival[Main][k]) = responses[Main][i]

\* C4: a batch of encodable requests that repeats an id is rejected at once
\* with a duplicate-id error: the call neither writes nor waits, and returns
\* no reply.
C4_DuplicateRejected ==
  (pc[Main] # "idle" /\ Encodable(Main) /\ ~Distinct(IdsOf(requests[Main]))) =>
    (pc[Main] = "done" /\ err[Main] = "duplicate id")

\* C5: a call that returns after the engine has exited, with a request that
\* never had a reply, returns an error.  Stated for the calls whose lines all
\* carried an id.
C5_EndOfStreamFails ==
  [][(/\ pc[Main] # "done"
      /\ pc'[Main] = "done"
      /\ engine = "exited"
      /\ LinesCarryIds(Main)'
      /\ \E i \in 1..Len(requests[Main]) :
           \A k \in 1..Len(arrival'[Main]) : arrival'[Main][k].ID # requests[Main][i].ID)
     => err'[Main] # "nil"]_vars

\* C6: an Analyze call that was waiting for replies when Close was called
\* returns an error.  Stated for the calls that read nothing but the replies
\* to their own requests.
C6_CloseAbortsInFlight ==
  (pc[Main] = "done" /\ inflight[Main] /\ OwnRepliesRead(Main)) => err[Main] # "nil"

\* C7: every Close call after the first returns without error.
C7_CloseIdempotent ==
  \A n \in 2..Len(closeErrs) : closeErrs[n] = "nil"

\* C8: a line that cannot be decoded does not end the Analyze call.
C8_MalformedLineIsolated ==
  \A c \in {Main} : err[c] # "unmarshal"

\* C9: a call with encodable requests that starts after Close has returned,
\* or after the engine has exited, fails with the error of its write to stdin.
C9_LateCallWriteError ==
  (pc[Main] = "done" /\ late[Main] /\ requests[Main] # <<>> /\ Encodable(Main))
  => err[Main] = "write"

\* C10: every Analyze call that has started returns, also when the batch is
\* larger than the pipes hold.
C10_AnalyzeReturns ==
  (pc[Main] \in {"writing", "reading"}) ~> (pc[Main] = "done")

\* C11: a Close call that has closed stdin returns, also when the engine
\* process does not exit on the end of its input.
C11_CloseReturns ==
  (closePc = "wait") ~> (closePc = "idle")

\* the bytes on their way to the engine: what it holds of an unfinished line,
\* then what the pipe holds
StdinStream ==
  ebuf \o stdinPipe

\* C13: calls made one after another, each answered with one reply per
\* request: a call that returns has read exactly the replies to its own
\* requests and returns them, and it leaves no request unread or unanswered
\* and no reply line unread for a later call.
C13_NothingLeftBehind ==
  pc[Main] = "done" =>
    /\ OwnRepliesRead(Main)
    /\ Len(arrival[Main]) = Len(requests[Main])
    /\ responses[Main] =
         [i \in 1..Len(requests[Main]) |-> Unmarshal(JsonLine(requests[Main][i].ID, 1))]
    /\ StdinStream = <<>>
    /\ pending = <<>>
    /\ stdoutPipe = <<>>
    /\ rbuf = <<>>

\* C13 witness: a later call with two or more requests has returned after an
\* earlier call on the session had returned replies.
C13_Witness ==
  /\ pc[Main] = "done"
  /\ earlier[Main]
  /\ calls[Main] >= 2
  /\ Len(requests[Main]) >= 2
  /\ Matched(Main)

\* C12: with several goroutines inside Analyze, every line on its way to the
\* engine is one whole request line: the first bytes of a line are followed
\* at once by the rest of the same line, or nothing follows them yet and
\* their writer is still inside Write; no other request's bytes come between.
C12_LinesNotInterleaved ==
  \A i \in 1..Len(StdinStream) :
    LET f == StdinStream[i] IN
      /\ f.kind \in {"json", "head", "tail"}
      /\ f.kind = "json" =>
           (i = 1 \/ StdinStream[i - 1].kind # "head")
      /\ f.kind = "tail" =>
           (i > 1 /\ StdinStream[i - 1] = Fragment("head", f.ID))
      /\ (f.kind = "head" /\ i = Len(StdinStream)) =>
           \E c \in Callers :
             /\ pc[c] = "midwrite"
             /\ requests[c][sent[c] + 1].ID = f.ID

\* C12 witness: one goroutine is inside Write with the first bytes of its
\* line read by the engine and the pipe empty again, while another goroutine
\* has a line to write.
C12_Witness ==
  \E c, d \in Callers :
    /\ c # d
    /\ pc[c] = "midwrite"
    /\ pc[d] = "writing"
    /\ stdinPipe = <<>>
    /\ ebuf = <<Fragment("head", requests[c][sent[c] + 1].ID)>>
    /\ requests[d][sent[d] + 1].ID # requests[c][sent[c] + 1].ID

\* C14: a call that fails on a request that cannot be encoded has sent no
\* request of its batch to the engine.  Stated for the batches with pairwise
\* distinct ids, and for the calls made while stdin is open and the engine
\* runs, where every write reaches the pipe.
C14_EncodeFailureSendsNothing ==
  (/\ pc[Main] = "done"
   /\ err[Main] = "marshal"
   /\ Distinct(IdsOf(requests[Main]))
   /\ ~stdinClosed
   /\ engine = "running")
  => sent[Main] = 0

\* C15: NewKataGo returns a session only with all three pipes created and
\* the process started; when a pipe or the start fails it returns an error
\* and no session; readStderr runs only once the process has been started.
C15_SessionOnlyAfterStart ==
  /\ session = "k" =>
       (ctor = "returned" /\ newErr = "nil" /\ pipes = AllPipes /\ engine # "unstarted")
  /\ (ctor = "returned" /\ (pipes # AllPipes \/ engine = "unstarted")) =>
       (newErr # "nil" /\ session = "nil")
  /\ (ctor = "returned" /\ newErr # "nil") => (session = "nil" /\ drain = "none")
  /\ drain # "none" => (engine # "unstarted" /\ pipes = AllPipes)

\* C15 witness: the three pipes were created, cmd.Start failed, and NewKataGo
\* has returned the error, no session, and has not started readStderr.
C15_Witness ==
  /\ ctor = "returned"
  /\ pipes = AllPipes
  /\ engine = "unstarted"
  /\ newErr = "failed to start KataGo"
  /\ session = "nil"
  /\ drain = "none"

\* C16: an Analyze call that waits for replies on an open session with a
\* running engine returns, whatever the engine writes to its stderr and
\* however readStderr ends.
C16_DrainKeepsReplyPathFree ==
  (pc[Main] = "reading") ~> (pc[Main] = "done" \/ stdinClosed \/ engine = "exited")

\* C17: Close calls cmd.Wait only with stdin closed, and a Close that has
\* called Wait returns only once the process has exited by itself: no step
\* of Close ends the process.  A Close whose stdin.Close fails returns that
\* error without calling Wait.
C17_StdinThenWait ==
  [][/\ (closePc = "idle" /\ closePc' = "wait") => stdinClosed'
     /\ (closePc = "wait" /\ closePc' = "idle") =>
          (stdinClosed /\ engine = "exited" /\ Len(closeErrs') = Len(closeErrs) + 1)
     /\ (closePc' # closePc \/ closeErrs' # closeErrs \/ stdinClosed' # stdinClosed) =>
          engine' = engine
     /\ (Len(closeErrs') > Len(closeErrs) /\ closeErrs'[Len(closeErrs')] = "stdin") =>
          (closePc = "idle" /\ closePc' = "idle" /\ waitDone' = waitDone)
    ]_vars

\* C17 witness: a first Close has closed stdin, waited for the engine to exit
\* and returned nil; a second Close has returned the error of stdin.Close.
C17_Witness ==
  /\ closeErrs = <<"nil", "stdin">>
  /\ closePc = "idle"
  /\ stdinClosed
  /\ waitDone
  /\ engine = "exited"

\* the distinct ids among the lines a call has read
IdsRead(c) ==
  {arrival[c][n].ID : n \in 1..Len(arrival[c])}

\* C18: within one call, every line that enters stdin is the line of the
\* next request of the input list, and it enters before the call has read
\* anything; a line is read only while the distinct ids read are fewer than
\* the requests, and a call that returns replies has read exactly as many
\* distinct ids as it has requests.
C18_WriteAllThenRead ==
  [][/\ Len(stdinPipe') > Len(stdinPipe) =>
          /\ stdinPipe' = Append(stdinPipe, Marshal(requests[Main][sent[Main] + 1]))
          /\ sent'[Main] = sent[Main] + 1
          /\ arrival[Main] = <<>>
     /\ Len(arrival'[Main]) > Len(arrival[Main]) =>
          /\ sent[Main] = Len(requests[Main])
          /\ Cardinality(IdsRead(Main)) < Len(requests[Main])
     /\ (pc[Main] = "reading" /\ pc'[Main] = "done" /\ err'[Main] = "nil") =>
          Cardinality(IdsRead(Main)') = Len(requests[Main])
    ]_vars

\* C18 witness: a call with two requests of different ids has written both
\* lines and has then read its two replies and returned.
C18_Witness ==
  /\ pc[Main] = "done"
  /\ err[Main] = "nil"
  /\ Len(requests[Main]) = 2
  /\ requests[Main][1].ID # requests[Main][2].ID
  /\ sent[Main] = 2
  /\ Len(arrival[Main]) = 2
  /\ arrival[Main][1].MoveInfos = 1
  /\ arrival[Main][2].MoveInfos = 1
  /\ arrival[Main][1].ID # arrival[Main][2].ID

\* C19: a call that returns an error returns no reply at all, and a call
\* that returns without error returns one entry per request.
C19_AllOrNothing ==
  pc[Main] = "done" =>
    /\ err[Main] # "nil" => responses[Main] = <<>>
    /\ err[Main] = "nil" => Len(responses[Main]) = Len(requests[Main])

\* C19 witness: a call with two requests has read the reply to one of them
\* and then failed, on a line that does not decode or at the end of the
\* stream, and has returned the error and no reply.
C19_Witness ==
  /\ pc[Main] = "done"
  /\ err[Main] \in {"unmarshal", "read"}
  /\ Len(requests[Main]) = 2
  /\ responseMap[Main] # {}
  /\ responses[Main] = <<>>

====
